---- MODULE Spec2Model ----
(***************************************************************************)
(* Trusted-setup ceremony tooling: folder sequencing, archive sync check,  *)
(* contribution run and finalization run (src/src/utils.ts,                *)
(* src/src/finalize.ts, which also holds the contribution entry point).    *)
(*                                                                         *)
(* Strings are sequences of tokens: a folder name "0007_alice" is          *)
(* <<"0","0","0","7","_","alice">>, a relative path "sub/a.zkey" is        *)
(* <<"sub","/","a",".zkey">>.  The local tree is a record                  *)
(*   dirs  : the directories of ./contributions                            *)
(*   other : entries of ./contributions that exist but are no directory    *)
(*   files : the pairs <<folder, relative path>> of regular files          *)
(* The archive is a set of object keys [pre, folder, path]: pre is the     *)
(* sequence of key segments between the bucket and the folder name.        *)
(***************************************************************************)
EXTENDS Integers, Sequences, FiniteSets, TLC

VARIABLES local, remote, pc, run, sync, nruns

vars == <<local, remote, pc, run, sync, nruns>>

\* JS null / "" where a folder name is expected
NULL == <<>>

---------------------------------------------------------------------------
\* Characters and strings

Digits == <<"0", "1", "2", "3", "4", "5", "6", "7", "8", "9">>

DigitSet == {Digits[i] : i \in 1..10}

DigitVal(c) == (CHOOSE i \in 1..10 : Digits[i] = c) - 1

\* The tokens in the order of their UTF-16 code units
Alphabet ==
  <<".DS_Store", "._", ".directory", ".json", ".r1cs", ".txt", ".zkey", "/",
    "0", "1", "2", "3", "4", "5", "6", "7", "8", "9",
    "A", "B", "BeaconRandomnessMetadata.json", "FinalAttestationFile.md",
    "Thumbs.db", "_", "_transcript.txt", "_verification_key.json",
    "a", "alice", "attestation.json", "b", "bob", "c", "contribution.txt",
    "final", "initial", "mainnet-v1", "notes", "r1cs", "sub">>

RankTable ==
  [t \in {Alphabet[i] : i \in 1..Len(Alphabet)} |->
     CHOOSE i \in 1..Len(Alphabet) : Alphabet[i] = t]

Rank(t) == RankTable[t]

\* s < t in the order Array.prototype.sort() uses (no comparator)
RECURSIVE LexLess(_, _)
LexLess(s, t) ==
  IF s = <<>> THEN t # <<>>
  ELSE IF t = <<>> THEN FALSE
  ELSE IF Head(s) = Head(t) THEN LexLess(Tail(s), Tail(t))
  ELSE Rank(Head(s)) < Rank(Head(t))

\* Array.prototype.sort() of the strings of S
\* q, sorted, with x put in its place
RECURSIVE Insert(_, _)
Insert(x, q) ==
  IF q = <<>> THEN <<x>>
  ELSE IF LexLess(x, Head(q)) THEN <<x>> \o q
  ELSE <<Head(q)>> \o Insert(x, Tail(q))

RECURSIVE Sort(_)
Sort(S) ==
  IF S = {} THEN <<>>
  ELSE LET m == CHOOSE x \in S : TRUE
       IN Insert(m, Sort(S \ {m}))

LastOf(q) == q[Len(q)]

\* Number.prototype.toString() of a non-negative integer
RECURSIVE NumToString(_)
NumToString(n) ==
  IF n < 10 THEN <<Digits[n + 1]>>
  ELSE NumToString(n \div 10) \o <<Digits[(n % 10) + 1]>>

\* String.prototype.padStart(len, fill)
RECURSIVE PadStart(_, _, _)
PadStart(s, len, fill) ==
  IF Len(s) >= len THEN s ELSE PadStart(<<fill>> \o s, len, fill)

\* parseInt: the value of the leading decimal digits
RECURSIVE ParseDigits(_, _)
ParseDigits(s, acc) ==
  IF s = <<>> \/ Head(s) \notin DigitSet THEN acc
  ELSE ParseDigits(Tail(s), acc * 10 + DigitVal(Head(s)))

ParseInt(s) == ParseDigits(s, 0)

\* String.prototype.substring(0, n)
Substring0(s, n) == SubSeq(s, 1, IF Len(s) < n THEN Len(s) ELSE n)

EndsWith(s, suffix) == s # <<>> /\ s[Len(s)] = suffix

StartsWith(s, prefix) == s # <<>> /\ s[1] = prefix

\* f.match(/^\d{4}_/)
MatchesOrdinalPrefix(f) ==
  /\ Len(f) >= 5
  /\ \A i \in 1..4 : f[i] \in DigitSet
  /\ f[5] = "_"

\* grep -o "[0-9]\{4\}_[^/]*/" on one line "PRE <name>/" of the listing: the
\* leftmost match, NULL when there is none
RECURSIVE GrepOrdinal(_)
GrepOrdinal(name) ==
  IF Len(name) < 5 THEN NULL
  ELSE IF MatchesOrdinalPrefix(name) THEN name
  ELSE GrepOrdinal(Tail(name))

---------------------------------------------------------------------------
\* Program constants

S3_CONTRIBUTION_DIR == "mainnet-v1"

INITIAL_FOLDER == <<"0", "0", "0", "0", "_", "initial">>

FINAL_FOLDER_NAME == <<"0", "0", "1", "0", "_", "final">>

\* asS3Path(folderName) followed by a relative path
AsS3Key(folder, path) ==
  [pre |-> <<S3_CONTRIBUTION_DIR>>, folder |-> folder, path |-> path]

\* `${S3_BUCKET_PATH}/mainnet-v1/${prefix}` of downloadFromS3
DownloadKey(folder, path) ==
  [pre |-> <<"mainnet-v1">>, folder |-> folder, path |-> path]

\* `${S3_BUCKET_PATH}/${folderName}/${file}` of the heal step
HealKey(folder, path) == [pre |-> <<>>, folder |-> folder, path |-> path]

---------------------------------------------------------------------------
\* The local tree

Exists(tree, folder) == folder \in tree.dirs \cup tree.other

FilesOf(tree, folder) == {f[2] : f \in {g \in tree.files : g[1] = folder}}

IsTopLevel(p) == \A i \in 1..Len(p) : p[i] # "/"

\* fs.readdirSync(folder): the names of the entries of the folder itself
ReadDir(tree, folder) ==
  Sort({IF IsTopLevel(p) THEN p ELSE <<p[1]>> : p \in FilesOf(tree, folder)})

SelectEndsWith(q, ext) == SelectSeq(q, LAMBDA p : EndsWith(p, ext))

GetDirectories(tree) == tree.dirs

\* getZkeyFiles(directory); the caller guards against a missing directory
GetZkeyFiles(tree, folder) == SelectEndsWith(ReadDir(tree, folder), ".zkey")

GetContributionFolders(tree) ==
  Sort({f \in GetDirectories(tree) : MatchesOrdinalPrefix(f)})

\* getFilesRecursively(localPath).sort()
GetFilesRecursively(tree, folder) == Sort(FilesOf(tree, folder))

Range(q) == {q[i] : i \in 1..Len(q)}

---------------------------------------------------------------------------
\* The archive CLI.  env.cli: isAwsCliAvailable(); env.ls: a listing command
\* exits zero; env.xfer: a copy command can reach the archive.

\* downloadFromS3(prefix) with a prefix
DownloadFromS3(tree, rem, prefix, env) ==
  IF prefix \in tree.other
  THEN [ok |-> FALSE, tree |-> tree]
  ELSE LET t1 == [tree EXCEPT !.dirs = @ \cup {prefix}]
           objs == {k \in rem : k = DownloadKey(prefix, k.path)}
       IN IF ~env.cli \/ ~env.xfer
          THEN [ok |-> FALSE, tree |-> t1]
          ELSE [ok |-> TRUE,
                tree |-> [t1 EXCEPT !.files =
                            @ \cup {<<prefix, k.path>> : k \in objs}]]

\* uploadToS3(folderName)
UploadToS3(tree, rem, folderName, env) ==
  IF ~env.cli \/ ~env.xfer \/ folderName \notin tree.dirs
  THEN [ok |-> FALSE, remote |-> rem]
  ELSE [ok |-> TRUE,
        remote |-> rem \cup {AsS3Key(folderName, p) : p \in FilesOf(tree, folderName)}]

\* The ignore list of the sync check and its test
ShouldIgnoreFile(file) ==
  \/ file = <<".DS_Store">>
  \/ file = <<"Thumbs.db">>
  \/ file = <<".directory">>
  \/ StartsWith(file, "._")

IsArtifactPathZkeyOnly(file) == EndsWith(file, ".zkey")

\* file.endsWith(".zkey") || file.endsWith(".r1cs")
IsArtifactPath(file) == EndsWith(file, ".zkey") \/ EndsWith(file, ".r1cs")

\* aws s3 ls asS3Path(folderName) --recursive, prefix stripped, sorted
S3FilesOfAnyPrefix(rem, folderName) ==
  Sort({k.path : k \in {x \in rem : x.folder = folderName}})

\* aws s3 ls asS3Path(folderName) --recursive, the folder prefix removed
S3Files(rem, folderName) ==
  Sort({k.path : k \in {x \in rem : x = AsS3Key(folderName, x.path)}})

WithoutNothing(a, b) == a

\* a.filter(f => !b.includes(f))
Without(a, b) ==
  LET keep(f) == f \notin Range(b) IN SelectSeq(a, keep)

NotIgnoredArtifacts(a) ==
  LET keep(f) == ~ShouldIgnoreFile(f) /\ IsArtifactPath(f) IN SelectSeq(a, keep)

\* a.filter(file => !shouldIgnoreFile(file))
NotIgnored(a) ==
  LET keep(f) == ~ShouldIgnoreFile(f) IN SelectSeq(a, keep)

\* The keys the heal loop copies from, one per missing file
HealFetches(rem, folderName, missingLocalFiles, env) ==
  {f \in Range(missingLocalFiles) : env.xfer /\ HealKey(folderName, f) \in rem}

RecheckSkipped(missingLocalFiles, stillMissing) == TRUE

\* The re-check after the download attempt and the value returned
RecheckResult(missingLocalFiles, stillMissing) ==
  IF missingLocalFiles # <<>> THEN stillMissing = <<>> ELSE TRUE

\* crossCheckFilesWithS3(folderName): the value returned, the tree left
\* behind, and what the run computed on the way
CrossCheckFilesWithS3(tree, rem, folderName, env) ==
  LET skipped == [result |-> FALSE, tree |-> tree, compared |-> FALSE,
                  missingLocalFiles |-> <<>>, missingS3Files |-> <<>>,
                  shouldDownload |-> FALSE, listed |-> {}, asked |-> {},
                  stillMissing |-> <<>>]
      s3Files == IF env.ls THEN S3Files(rem, folderName) ELSE <<>>
      localFiles == GetFilesRecursively(tree, folderName)
      filteredS3Files == NotIgnored(s3Files)
      filteredLocalFiles == NotIgnored(localFiles)
      missingLocalFiles == Without(filteredS3Files, filteredLocalFiles)
      missingS3Files == Without(filteredLocalFiles, filteredS3Files)
      shouldDownload ==
        \E i \in 1..Len(missingLocalFiles) : IsArtifactPath(missingLocalFiles[i])
      got == IF shouldDownload
             THEN HealFetches(rem, folderName, missingLocalFiles, env)
             ELSE {}
      tree2 == [tree EXCEPT !.files = @ \cup {<<folderName, f>> : f \in got}]
      newLocalFiles == NotIgnored(GetFilesRecursively(tree2, folderName))
      stillMissing == Without(filteredS3Files, newLocalFiles)
  IN IF ~env.cli THEN skipped
     ELSE IF s3Files = <<>> THEN skipped
     ELSE IF folderName \notin tree.dirs THEN skipped
     ELSE [result |-> RecheckResult(missingLocalFiles, stillMissing),
           tree |-> tree2,
           compared |-> TRUE,
           missingLocalFiles |-> missingLocalFiles,
           missingS3Files |-> missingS3Files,
           shouldDownload |-> shouldDownload,
           listed |-> {AsS3Key(folderName, f) : f \in Range(s3Files)},
           asked |-> IF shouldDownload
                     THEN {HealKey(folderName, f) : f \in Range(missingLocalFiles)}
                     ELSE {},
           stillMissing |-> stillMissing]

\* aws s3 ls asS3Path("/") | grep -o ... | sort
S3Folders(rem) ==
  LET names == {k.folder : k \in {x \in rem : x.pre = <<S3_CONTRIBUTION_DIR>>}}
  IN Sort({GrepOrdinal(n) : n \in names} \ {NULL})

HasRequiredZkeyFiles(tree, folder) ==
  folder \in tree.dirs /\ GetZkeyFiles(tree, folder) # <<>>

\* downloadLatestContribution(): the name returned (NULL for null) and the tree
DownloadLatestContribution(tree, rem, env) ==
  LET listing == IF env.ls THEN S3Folders(rem) ELSE <<>>
      folderName == LastOf(listing)
      none == [name |-> NULL, tree |-> tree]
  IN IF ~env.cli THEN none
     ELSE IF listing = <<>> THEN none
     ELSE IF folderName \in tree.other THEN none
     ELSE IF /\ folderName \in tree.dirs
             /\ ReadDir(tree, folderName) # <<>>
             /\ HasRequiredZkeyFiles(tree, folderName)
          THEN [name |-> folderName, tree |-> tree]
          ELSE [name |-> folderName,
                tree |-> DownloadFromS3(tree, rem, folderName, env).tree]

EnsureInitialSetupTrustingDownload(tree, rem, env) ==
  LET dl == DownloadFromS3(tree, rem, INITIAL_FOLDER, env)
  IN IF ~Exists(tree, INITIAL_FOLDER) \/ ~HasRequiredZkeyFiles(tree, INITIAL_FOLDER)
     THEN [ok |-> dl.ok, tree |-> dl.tree]
     ELSE [ok |-> TRUE,
           tree |-> CrossCheckFilesWithS3(tree, rem, INITIAL_FOLDER, env).tree]

\* ensureInitialSetup(): ok is FALSE when it throws
EnsureInitialSetup(tree, rem, env) ==
  LET dl == DownloadFromS3(tree, rem, INITIAL_FOLDER, env)
  IN IF ~Exists(tree, INITIAL_FOLDER) \/ ~HasRequiredZkeyFiles(tree, INITIAL_FOLDER)
     THEN [ok |-> dl.ok /\ HasRequiredZkeyFiles(dl.tree, INITIAL_FOLDER),
           tree |-> dl.tree]
     ELSE [ok |-> TRUE,
           tree |-> CrossCheckFilesWithS3(tree, rem, INITIAL_FOLDER, env).tree]

---------------------------------------------------------------------------
\* Folder sequencing

NoConfig == [contributionNumber |-> NULL, githubUsername |-> "", folderName |-> NULL]

NextNumberNoPad(folders) ==
  NumToString(ParseInt(Substring0(LastOf(folders), 4)) + 1)

\* (lastContribution + 1).toString().padStart(4, "0")
NextNumber(folders) ==
  PadStart(NumToString(ParseInt(Substring0(LastOf(folders), 4)) + 1), 4, "0")

\* setupContribution(): ok is FALSE when it throws
SetupContribution(tree, rem, env, githubUsername) ==
  LET contributionFolders == GetContributionFolders(tree)
      dl == DownloadLatestContribution(tree, rem, env)
      t1 == IF contributionFolders = <<>> THEN dl.tree ELSE tree
      updatedFolders == GetContributionFolders(t1)
      contributionNumber ==
        IF contributionFolders = <<>>
        THEN IF updatedFolders = <<>>
             THEN <<"0", "0", "0", "1">>
             ELSE NextNumber(updatedFolders)
        ELSE NextNumber(contributionFolders)
      folderName == contributionNumber \o <<"_", githubUsername>>
  IN IF \/ /\ contributionFolders = <<>>
           /\ dl.name = NULL
           /\ ~Exists(t1, INITIAL_FOLDER)
        \/ folderName \in t1.other
     THEN [ok |-> FALSE, tree |-> t1, config |-> NoConfig]
     ELSE [ok |-> TRUE,
           tree |-> [t1 EXCEPT !.dirs = @ \cup {folderName}],
           config |-> [contributionNumber |-> contributionNumber,
                       githubUsername |-> githubUsername,
                       folderName |-> folderName]]

---------------------------------------------------------------------------
\* One contribution run: main() of the contribution entry point, step by step

\* String.prototype.replace(from, to): the first occurrence only
RECURSIVE Replace(_, _, _)
Replace(s, from, to) ==
  IF s = <<>> THEN <<>>
  ELSE IF Head(s) = from THEN <<to>> \o Tail(s)
  ELSE <<Head(s)>> \o Replace(Tail(s), from, to)

AttestationJson == <<"attestation.json">>

ContributionTxt == <<"contribution.txt">>

\* The folders before the new one was created, and the source among them
SourceFolders(tree, config) ==
  LET keep(f) == f # config.folderName
  IN SelectSeq(GetContributionFolders(tree), keep)

ContributeToZkeySwallowingErrors(zkeyFile, config, outcome) ==
  [ok |-> TRUE,
   written |-> IF outcome = "contribute_fails" THEN {}
               ELSE {<<config.folderName, zkeyFile>>},
   contribution |-> [filename |-> zkeyFile,
                     hash |-> <<"sha256", <<config.folderName, zkeyFile>>>>]]

\* The files contributeToZkey leaves in the new folder for one artifact,
\* according to how far it got
ContributeToZkey(zkeyFile, config, outcome) ==
  LET newZkey == <<config.folderName, zkeyFile>>
      vkey == <<config.folderName, Replace(zkeyFile, ".zkey", "_verification_key.json")>>
      transcript == <<config.folderName, zkeyFile \o <<"_transcript.txt">>>>
  IN [ok |-> outcome = "ok",
      written |-> CASE outcome = "contribute_fails" -> {}
                    [] outcome = "export_fails" -> {newZkey}
                    [] OTHER -> {newZkey, vkey, transcript},
      contribution |-> [filename |-> zkeyFile, hash |-> <<"sha256", newZkey>>]]

CreateMetadataFilesDroppingFirst(config, contributions) ==
  [written |-> {<<config.folderName, ContributionTxt>>,
                <<config.folderName, AttestationJson>>},
   attestationData |-> [contributor |-> config.githubUsername,
                        contributionNumber |-> config.contributionNumber,
                        files |-> Tail(contributions)]]

\* createMetadataFiles(config, contributions)
CreateMetadataFiles(config, contributions) ==
  [written |-> {<<config.folderName, ContributionTxt>>,
                <<config.folderName, AttestationJson>>},
   attestationData |-> [contributor |-> config.githubUsername,
                        contributionNumber |-> config.contributionNumber,
                        files |-> contributions]]

---------------------------------------------------------------------------
\* One finalization run: main() of finalize.ts, step by step

R1csFolder == <<"r1cs">>

PtauFile == <<"powersOfTau28_hez_final_18.ptau">>

\* `${S3_BUCKET_PATH}/${ptauFileName}`
PtauKey == [pre |-> <<>>, folder |-> NULL, path |-> PtauFile]

FinalAttestationFile == <<"FinalAttestationFile.md">>

BeaconMetadataFile == <<"BeaconRandomnessMetadata.json">>

\* path.basename(file, ext)
Basename(file, ext) ==
  IF EndsWith(file, ext) THEN SubSeq(file, 1, Len(file) - 1) ELSE file

LowerToken(t) == CASE t = "A" -> "a" [] t = "B" -> "b" [] OTHER -> t

\* String.prototype.toLowerCase()
ToLowerCase(s) == [i \in 1..Len(s) |-> LowerToken(s[i])]

\* String.prototype.includes(t)
Includes(s, t) ==
  \/ t = <<>>
  \/ \E i \in 1..Len(s) :
       i + Len(t) - 1 <= Len(s) /\ SubSeq(s, i, i + Len(t) - 1) = t

R1csFiles(tree) == SelectEndsWith(ReadDir(tree, R1csFolder), ".r1cs")

\* ensureR1csFiles(): ok is FALSE when it throws
EnsureR1csFiles(tree, rem, env) ==
  LET t1 == [tree EXCEPT !.dirs = @ \cup {R1csFolder}]
      objs == {k \in rem : k = AsS3Key(R1csFolder, k.path)}
      t2 == [t1 EXCEPT !.files = @ \cup {<<R1csFolder, k.path>> : k \in objs}]
  IN IF R1csFiles(t1) # <<>> THEN [ok |-> TRUE, tree |-> t1]
     ELSE IF ~env.cli \/ ~env.xfer THEN [ok |-> FALSE, tree |-> t1]
     ELSE [ok |-> R1csFiles(t2) # <<>>, tree |-> t2]

FindR1csPartialFirst(tree, zkeyFile) ==
  LET circuitName == Basename(zkeyFile, ".zkey")
      isPartial(file) ==
        \/ Includes(ToLowerCase(file), ToLowerCase(circuitName))
        \/ Includes(ToLowerCase(circuitName), ToLowerCase(Basename(file, ".r1cs")))
      partial == SelectSeq(R1csFiles(tree), isPartial)
  IN IF partial # <<>> THEN Head(partial) ELSE NULL

\* The r1cs file applyRandomBeacon pairs with a zkey file: the exact match,
\* else the first partial match, else NULL
FindR1cs(tree, zkeyFile) ==
  LET circuitName == Basename(zkeyFile, ".zkey")
      isExact(file) == Basename(file, ".r1cs") = circuitName
      isPartial(file) ==
        \/ Includes(ToLowerCase(file), ToLowerCase(circuitName))
        \/ Includes(ToLowerCase(circuitName), ToLowerCase(Basename(file, ".r1cs")))
      exact == SelectSeq(R1csFiles(tree), isExact)
      partial == SelectSeq(R1csFiles(tree), isPartial)
  IN IF exact # <<>> THEN Head(exact)
     ELSE IF partial # <<>> THEN Head(partial)
     ELSE NULL

\* ensurePtauFile(): the tree it leaves; it returns the path in every case
EnsurePtauFile(tree, rem, env) ==
  IF PtauFile \notin tree.other /\ env.cli /\ env.xfer /\ PtauKey \in rem
  THEN [tree EXCEPT !.other = @ \cup {PtauFile}]
  ELSE tree

\* runAwsCommand(command) throws: only without the CLI and only for a
\* recursive copy; a command that fails makes it return ""
RunAwsCommandThrows(env, recursiveCopy) == ~env.cli /\ recursiveCopy

\* ensurePtauFile() returns instead of throwing: the copy of the single file
\* is its only call that could throw
EnsurePtauFileReturns(tree, env) ==
  PtauFile \in tree.other \/ ~RunAwsCommandThrows(env, FALSE)

\* The body of the loop of applyRandomBeacon for one zkey file, according to
\* how far the collaborators let it get
ApplyRandomBeacon(tree, rem, env, zkeyFile, outcome) ==
  LET finalZkey == <<FINAL_FOLDER_NAME, zkeyFile>>
      vkey == <<FINAL_FOLDER_NAME,
                Basename(zkeyFile, ".zkey") \o <<"_verification_key.json">>>>
      t1 == [tree EXCEPT !.files = @ \cup {finalZkey}]
      t2 == EnsurePtauFile(t1, rem, env)
      t3 == [t2 EXCEPT !.files = @ \cup {vkey}]
      r1csFile == FindR1cs(t1, zkeyFile)
  IN IF outcome = "beacon_fails"
     THEN [ok |-> FALSE, tree |-> tree, written |-> {}, r1csFile |-> NULL,
           verified |-> FALSE]
     ELSE IF r1csFile = NULL
     THEN [ok |-> FALSE, tree |-> t1, written |-> {finalZkey}, r1csFile |-> NULL,
           verified |-> FALSE]
     ELSE IF outcome = "verify_fails" \/ PtauFile \notin t2.other
     THEN [ok |-> FALSE, tree |-> t2, written |-> {finalZkey},
           r1csFile |-> r1csFile, verified |-> FALSE]
     ELSE IF outcome = "export_fails"
     THEN [ok |-> FALSE, tree |-> t2, written |-> {finalZkey},
           r1csFile |-> r1csFile, verified |-> TRUE]
     ELSE [ok |-> TRUE, tree |-> t3, written |-> {finalZkey, vkey},
           r1csFile |-> r1csFile, verified |-> TRUE]

CreateAttestationFileUnhashed(tree, hashOk) ==
  LET zkeyFiles == SelectEndsWith(ReadDir(tree, FINAL_FOLDER_NAME), ".zkey")
  IN [ok |-> zkeyFiles # <<>>,
      written |-> {<<FINAL_FOLDER_NAME, FinalAttestationFile>>,
                   <<FINAL_FOLDER_NAME, BeaconMetadataFile>>},
      fileHashes |-> [i \in 1..Len(zkeyFiles) |->
                        [filename |-> zkeyFiles[i], hash |-> NULL]]]

\* createAttestationFile(timestamp) and createBeaconMetadataFile(timestamp);
\* hashOk: the openssl command of every artifact exits zero
CreateAttestationFile(tree, hashOk) ==
  LET zkeyFiles == SelectEndsWith(ReadDir(tree, FINAL_FOLDER_NAME), ".zkey")
      entry(i) == [filename |-> zkeyFiles[i],
                   hash |-> <<"sha256", <<FINAL_FOLDER_NAME, zkeyFiles[i]>>>>]
  IN [ok |-> zkeyFiles # <<>> /\ hashOk,
      written |-> {<<FINAL_FOLDER_NAME, FinalAttestationFile>>,
                   <<FINAL_FOLDER_NAME, BeaconMetadataFile>>},
      fileHashes |-> [i \in 1..Len(zkeyFiles) |-> entry(i)]]

---------------------------------------------------------------------------
\* Values the specifications draw from

Folder(n, label) == PadStart(NumToString(n), 4, "0") \o <<"_", label>>

Users == {"alice", "bob"}

\* Without the CLI no listing and no copy command works
Envs ==
  {e \in [cli : BOOLEAN, ls : BOOLEAN, xfer : BOOLEAN] :
     ~e.cli => (~e.ls /\ ~e.xfer)}

AZkey == <<"a", ".zkey">>

BZkey == <<"b", ".zkey">>

Notes == <<"notes", ".txt">>

FullFiles == {AZkey, BZkey, Notes}

EmptyTree == [dirs |-> {}, other |-> {}, files |-> {}]

NoRun == [op |-> "none"]

Outcomes == {"ok", "contribute_fails", "export_fails"}

BeaconOutcomes == {"ok", "beacon_fails", "verify_fails", "export_fails"}

R1csChoices == {<<"a", ".r1cs">>, <<"b", ".r1cs">>}

NoAttestation == [contributor |-> "", contributionNumber |-> NULL, files |-> <<>>]

\* The variables checkRequiredEnvVars asks for
RequiredVars ==
  {"AWS_ACCESS_KEY_ID", "AWS_SECRET_ACCESS_KEY", "AWS_DEFAULT_REGION",
   "AWS_ENDPOINT_URL", "S3BUCKET"}

\* The variables the process environment defines, .env file included
ProcessEnvs ==
  {RequiredVars, RequiredVars \ {"AWS_ENDPOINT_URL"},
   RequiredVars \ {"S3BUCKET", "AWS_ACCESS_KEY_ID"}}

CheckRequiredEnvVarsCredentialsOnly(processEnv) ==
  {"AWS_ACCESS_KEY_ID", "AWS_SECRET_ACCESS_KEY"} \subseteq processEnv

\* checkRequiredEnvVars(): TRUE when it returns, FALSE when it ends the
\* process with status 1 (without S3BUCKET the module fails to load, which
\* ends the process with status 1 as well)
CheckRequiredEnvVars(processEnv) ==
  LET missingVars == RequiredVars \ processEnv IN missingVars = {}

\* The folders of a tree that hold an attestation
Sealed(tree) ==
  {f \in tree.dirs : \/ <<f, AttestationJson>> \in tree.files
                      \/ <<f, FinalAttestationFile>> \in tree.files}

\* What a run remembers; exit is the code passed to process.exit once done,
\* startDirs and sealed the folders that existed and those that held an
\* attestation when the run began, touched the
\* files its transform, beacon and attestation steps wrote, r1csUsed the
\* constraint-system file paired with each artifact, processEnv the variables
\* the process was started with, awsCli what isAwsCliAvailable() said once
\* the run came to ask
NewRun(kind, tree, rem) ==
  [op |-> kind, processEnv |-> RequiredVars, awsCli |-> FALSE, done |-> FALSE, exit |-> 0, startRemote |-> rem, reachable |-> FALSE,
   latest |-> NULL, config |-> NoConfig, lastFolder |-> NULL,
   zkeyFiles |-> <<>>, contributions |-> <<>>, failedAt |-> 0,
   attestationData |-> NoAttestation, uploaded |-> FALSE,
   synced |-> FALSE, startDirs |-> tree.dirs, sealed |-> Sealed(tree), touched |-> {}, r1csUsed |-> <<>>, stage |-> "start"]

NoSync == [phase |-> "none"]

\* A tree whose directories all hold the same files
TreeOf(dirs, other, files) ==
  [dirs |-> dirs, other |-> other, files |-> dirs \X files]

\* An archive whose folders all hold FullFiles under the ceremony prefix
ArchiveOf(folders) == {AsS3Key(f, p) : f \in folders, p \in FullFiles}

\* What the coordinator put in the bucket beside the folders
SharedObjects == {AsS3Key(R1csFolder, p) : p \in R1csChoices} \cup {PtauKey}

---------------------------------------------------------------------------
\* SpecFolders: setupContribution() and downloadLatestContribution() applied
\* to drawn local trees and archives

FolderChoices ==
  {INITIAL_FOLDER, Folder(1, "alice"), Folder(9, "bob"), Folder(9998, "alice"),
   Folder(9999, "bob"), <<"r1cs">>}

ArchiveChoices == {INITIAL_FOLDER, Folder(1, "alice"), Folder(9999, "bob")}

FillChoices == {{}, {AZkey}, FullFiles}

InitFolders ==
  /\ \E dirs \in SUBSET FolderChoices, fill \in FillChoices,
        other \in {{}, {INITIAL_FOLDER}} :
       /\ other \cap dirs = {}
       /\ local = TreeOf(dirs, other, fill)
  /\ \E folders \in SUBSET ArchiveChoices : remote = ArchiveOf(folders)
  /\ pc = "fn"
  /\ run = NoRun
  /\ sync = NoSync
  /\ nruns = 0

FnSetupContribution ==
  /\ pc = "fn"
  /\ \E env \in Envs, user \in Users :
       LET r == SetupContribution(local, remote, env, user)
       IN /\ local' = r.tree
          /\ run' = [op |-> "setup", before |-> local, env |-> env,
                     ok |-> r.ok, config |-> r.config]
  /\ pc' = "returned"
  /\ UNCHANGED <<remote, sync, nruns>>

FnDownloadLatest ==
  /\ pc = "fn"
  /\ \E env \in Envs :
       LET r == DownloadLatestContribution(local, remote, env)
       IN /\ local' = r.tree
          /\ run' = [op |-> "latest", before |-> local, env |-> env,
                     name |-> r.name]
  /\ pc' = "returned"
  /\ UNCHANGED <<remote, sync, nruns>>

FnEnsureInitialSetup ==
  /\ pc = "fn"
  /\ \E env \in Envs :
       LET r == EnsureInitialSetup(local, remote, env)
       IN /\ local' = r.tree
          /\ run' = [op |-> "seed", before |-> local, env |-> env, ok |-> r.ok]
  /\ pc' = "returned"
  /\ UNCHANGED <<remote, sync, nruns>>

FnEnsurePtauFile ==
  /\ pc = "fn"
  /\ \E env \in Envs :
       /\ local' = EnsurePtauFile(local, remote, env)
       /\ run' = [op |-> "ptau", before |-> local, env |-> env,
                  ok |-> EnsurePtauFileReturns(local, env)]
  /\ pc' = "returned"
  /\ UNCHANGED <<remote, sync, nruns>>

NextFolders ==
  \/ FnSetupContribution
  \/ FnDownloadLatest
  \/ FnEnsureInitialSetup
  \/ FnEnsurePtauFile

SpecFolders == InitFolders /\ [][NextFolders]_vars

\* What the claims about folder sequencing speak of

ContributionDirs(tree) == {f \in tree.dirs : MatchesOrdinalPrefix(f)}

OrdinalValue(f) ==
  DigitVal(f[1]) * 1000 + DigitVal(f[2]) * 100 + DigitVal(f[3]) * 10 + DigitVal(f[4])

MaxOrdinal(tree) ==
  LET ords == {OrdinalValue(f) : f \in ContributionDirs(tree)}
  IN CHOOSE m \in ords : \A o \in ords : o <= m

IsFourDigits(s) == Len(s) = 4 /\ \A i \in 1..4 : s[i] \in DigitSet

\* Neither the local tree nor a reachable archive listing shows a folder
NoFolderAtAll ==
  /\ ContributionDirs(run.before) = {}
  /\ ~(run.env.cli /\ run.env.ls) \/ S3Folders(remote) = <<>>

AllocatesNextOrdinal ==
  run.ok => /\ IsFourDigits(run.config.contributionNumber)
            /\ OrdinalValue(run.config.contributionNumber) = MaxOrdinal(run.before) + 1

EmptyCaseNeedsSeed ==
  /\ run.ok => /\ run.config.contributionNumber = <<"0", "0", "0", "1">>
               /\ Exists(run.before, INITIAL_FOLDER)
  /\ ~Exists(run.before, INITIAL_FOLDER) => ~run.ok

\* C1 (as stated): with existing folders of ordinals 0000..9999,
\* setupContribution allocates max+1 as exactly 4 decimal digits; with no
\* folder at all it allocates "0001" only when 0000_initial exists, else fails.
C1_NextOrdinalUpTo9999 ==
  run.op = "setup" =>
    /\ ContributionDirs(run.before) # {} => AllocatesNextOrdinal
    /\ NoFolderAtAll => EmptyCaseNeedsSeed

\* C1 (amended): the same for existing ordinals 0000..9998; behind 9999 the
\* allocated number is the five characters "10000".
C1_NextOrdinalUpTo9998 ==
  run.op = "setup" =>
    /\ ContributionDirs(run.before) # {} =>
         IF MaxOrdinal(run.before) <= 9998
         THEN AllocatesNextOrdinal
         ELSE run.ok => run.config.contributionNumber = <<"1", "0", "0", "0", "0">>
    /\ NoFolderAtAll => EmptyCaseNeedsSeed

\* C1 witness: a folder allocated behind 0009 (a carry into the padding), and
\* the reading of the seed in the empty case is exercised by other states
C1_Witness ==
  /\ run.op = "setup"
  /\ run.ok
  /\ ContributionDirs(run.before) # {}
  /\ MaxOrdinal(run.before) = 9
  /\ run.config.folderName = Folder(10, "alice")
  /\ run.config.folderName \in local.dirs

\* C6: after downloadLatestContribution returns a name with the archive
\* reachable and every transfer succeeding, the local folder holds every
\* non-ignored file of the archive folder, whatever it held before.
C6_LatestFolderComplete ==
  (run.op = "latest" /\ run.name # NULL /\ run.env.cli /\ run.env.ls /\ run.env.xfer)
    => \A k \in remote :
         (k = AsS3Key(run.name, k.path) /\ ~ShouldIgnoreFile(k.path))
           => <<run.name, k.path>> \in local.files

---------------------------------------------------------------------------
\* SpecSync: crossCheckFilesWithS3(folderName) applied to drawn file sets of
\* one folder, twice in a row, and to the same sets with one ignored file more

SyncFolder == Folder(1, "alice")

SubC == <<"sub", "/", "c", ".r1cs">>

SyncPaths == {AZkey, BZkey, Notes, SubC}

\* Objects that may lie directly under the bucket, outside the ceremony prefix
StrayPaths == {BZkey, SubC}

IgnoredNames ==
  {<<".DS_Store">>, <<"Thumbs.db">>, <<".directory">>, <<"._", "a", ".zkey">>}

IgnoredPaths == IgnoredNames \cup {<<"sub", "/">> \o n : n \in IgnoredNames}

InitSync ==
  /\ \E dirs \in SUBSET {SyncFolder}, files \in SUBSET SyncPaths :
       local = TreeOf(dirs, {}, files)
  /\ \E listed \in SUBSET SyncPaths, stray \in SUBSET StrayPaths :
       remote = {AsS3Key(SyncFolder, p) : p \in listed}
                  \cup {HealKey(SyncFolder, p) : p \in stray}
  /\ \E env \in Envs : sync = [phase |-> "ready", env |-> env]
  /\ pc = "sync"
  /\ run = NoRun
  /\ nruns = 0

SyncCheck ==
  /\ pc = "sync"
  /\ sync.phase \in {"ready", "checked"}
  /\ LET r == CrossCheckFilesWithS3(local, remote, SyncFolder, sync.env)
     IN /\ local' = r.tree
        /\ sync' = IF sync.phase = "ready"
                   THEN [phase |-> "checked", env |-> sync.env,
                         before |-> local, archive |-> remote, first |-> r]
                   ELSE [phase |-> "rechecked", env |-> sync.env,
                         before |-> sync.before, archive |-> sync.archive,
                         first |-> sync.first, second |-> r]
  /\ UNCHANGED <<remote, pc, run, nruns>>

\* The check of the drawn sets beside the check of the same sets with one
\* ignored file added to the local or to the archive side
SyncWithIgnored ==
  /\ pc = "sync"
  /\ sync.phase = "ready"
  /\ \E p \in IgnoredPaths, side \in {"local", "archive"} :
       /\ local' = IF side = "local"
                   THEN [local EXCEPT !.files = @ \cup {<<SyncFolder, p>>}]
                   ELSE local
       /\ remote' = IF side = "archive"
                    THEN remote \cup {AsS3Key(SyncFolder, p)}
                    ELSE remote
       /\ sync' = [phase |-> "compared", env |-> sync.env, added |-> p,
                   side |-> side,
                   without |-> CrossCheckFilesWithS3(local, remote, SyncFolder, sync.env),
                   with |-> CrossCheckFilesWithS3(local', remote', SyncFolder, sync.env)]
  /\ UNCHANGED <<pc, run, nruns>>

NextSync == SyncCheck \/ SyncWithIgnored

SpecSync == InitSync /\ [][NextSync]_vars

\* The non-ignored paths the archive lists under the folder's prefix
ListedPaths ==
  {k.path : k \in {x \in remote : x = AsS3Key(SyncFolder, x.path)
                                    /\ ~ShouldIgnoreFile(x.path)}}

Reachable == sync.env.cli /\ sync.env.ls

\* C4: with the archive reachable, a missing set that holds an artifact path
\* and every single fetch succeeding, the check leaves every listed path in
\* the local folder and returns true.
C4_HealCompletes ==
  LET missing == ListedPaths \ FilesOf(sync.before, SyncFolder)
  IN (/\ sync.phase = "checked"
      /\ Reachable /\ sync.env.xfer
      /\ SyncFolder \in sync.before.dirs
      /\ \E p \in missing : IsArtifactPath(p))
       => /\ sync.first.result
          /\ ListedPaths \subseteq FilesOf(local, SyncFolder)

\* C5: the object the heal step fetches for a missing path is the object the
\* listing reported for it (every operation addresses
\* <bucket>/<fixed-prefix>/<folderName>/<relativePath>).
C5_HealFetchesListedObject ==
  sync.phase = "checked" =>
    /\ sync.first.asked \subseteq sync.first.listed
    /\ \A p \in SyncPaths : DownloadKey(SyncFolder, p) = AsS3Key(SyncFolder, p)

C8_IgnoredFileChangesNothing ==
  (sync.phase = "compared" /\ sync.without.compared /\ sync.with.compared)
    => /\ sync.with.missingLocalFiles = sync.without.missingLocalFiles
       /\ sync.with.missingS3Files = sync.without.missingS3Files
       /\ sync.with.shouldDownload = sync.without.shouldDownload

---------------------------------------------------------------------------
\* Spec: contribution and finalization runs, one at a time, against one local
\* root and one archive

MaxRuns == 2

SeedTree == TreeOf({INITIAL_FOLDER}, {PtauFile}, FullFiles)

ArchiveStarts ==
  {{INITIAL_FOLDER}, {INITIAL_FOLDER, Folder(1, "alice")},
   {INITIAL_FOLDER, Folder(9, "bob")}}

Init ==
  /\ \E folders \in ArchiveStarts :
       /\ remote = ArchiveOf(folders) \cup SharedObjects
       /\ local \in {EmptyTree, SeedTree, TreeOf(folders, {PtauFile}, FullFiles)}
  /\ pc = "idle"
  /\ run = NoRun
  /\ sync = NoSync
  /\ nruns = 0

Exit(r, code) ==
  /\ pc' = "idle"
  /\ run' = [r EXCEPT !.done = TRUE, !.exit = code]

\* main(): checkRequiredEnvVars, isAwsCliAvailable, ensureInitialSetup,
\* downloadLatestContribution
ContribStart ==
  /\ pc = "idle"
  /\ nruns < MaxRuns
  /\ nruns' = nruns + 1
  /\ \E env \in Envs, processEnv \in ProcessEnvs :
       LET r == [NewRun("contribute", local, remote) EXCEPT !.processEnv = processEnv]
           configured == CheckRequiredEnvVars(processEnv)
           seed == EnsureInitialSetup(local, remote, env)
           dl == DownloadLatestContribution(seed.tree, remote, env)
       IN IF ~configured \/ ~env.cli
          THEN local' = local /\ Exit(r, 1)
          ELSE IF ~seed.ok
          THEN local' = seed.tree /\ Exit([r EXCEPT !.awsCli = env.cli], 1)
          ELSE /\ local' = dl.tree
               /\ pc' = "c_alloc"
               /\ run' = [r EXCEPT !.latest = dl.name,
                                   !.awsCli = env.cli,
                                   !.reachable = env.cli /\ env.ls]
  /\ UNCHANGED <<remote, sync>>

\* runContributionCeremony() up to the listing of the source folder's
\* artifacts in performContributions
ContribAllocate ==
  /\ pc = "c_alloc"
  /\ \E env \in Envs, user \in Users :
       LET s == SetupContribution(local, remote, env, user)
           contributionFolders == SourceFolders(s.tree, s.config)
           lastFolder == LastOf(contributionFolders)
           zkeyFiles == GetZkeyFiles(s.tree, lastFolder)
       IN /\ local' = s.tree
          /\ IF ~s.ok
             THEN Exit(run, 1)
             ELSE IF contributionFolders = <<>>
             THEN Exit([run EXCEPT !.config = s.config], 1)
             ELSE IF zkeyFiles = <<>>
             THEN Exit([run EXCEPT !.config = s.config,
                                   !.lastFolder = lastFolder], 1)
             ELSE /\ pc' = "c_transform"
                  /\ run' = [run EXCEPT !.config = s.config,
                                        !.lastFolder = lastFolder,
                                        !.zkeyFiles = zkeyFiles]
  /\ UNCHANGED <<remote, sync, nruns>>

\* One iteration of zkeyFiles.map(...) in performContributions
ContribTransform ==
  /\ pc = "c_transform"
  /\ \E outcome \in Outcomes :
       LET i == Len(run.contributions) + 1
           c == ContributeToZkey(run.zkeyFiles[i], run.config, outcome)
           r == [run EXCEPT !.failedAt = IF outcome = "ok" THEN @ ELSE i,
                            !.touched = @ \cup c.written]
       IN /\ local' = [local EXCEPT !.files = @ \cup c.written]
          /\ IF ~c.ok
             THEN Exit(r, 1)
             ELSE /\ run' = [r EXCEPT !.contributions = Append(@, c.contribution)]
                  /\ pc' = IF i = Len(run.zkeyFiles) THEN "c_attest" ELSE "c_transform"
  /\ UNCHANGED <<remote, sync, nruns>>

ContribAttestEarly ==
  /\ pc \in {"c_transform", "c_attest"}
  /\ LET m == CreateMetadataFiles(run.config, run.contributions)
     IN /\ local' = [local EXCEPT !.files = @ \cup m.written]
        /\ run' = [run EXCEPT !.attestationData = m.attestationData,
                              !.touched = @ \cup m.written]
  /\ pc' = "c_upload"
  /\ UNCHANGED <<remote, sync, nruns>>

\* createMetadataFiles(config, contributions) in runContributionCeremony
ContribAttest ==
  /\ pc = "c_attest"
  /\ LET m == CreateMetadataFiles(run.config, run.contributions)
     IN /\ local' = [local EXCEPT !.files = @ \cup m.written]
        /\ run' = [run EXCEPT !.attestationData = m.attestationData,
                              !.touched = @ \cup m.written]
  /\ pc' = "c_upload"
  /\ UNCHANGED <<remote, sync, nruns>>

ContribUpload ==
  /\ pc = "c_upload"
  /\ \E env \in Envs :
       LET u == UploadToS3(local, remote, run.config.folderName, env)
       IN /\ remote' = u.remote
          /\ run' = [run EXCEPT !.uploaded = u.ok]
  /\ pc' = "c_verify"
  /\ UNCHANGED <<local, sync, nruns>>

ContribVerify ==
  /\ pc = "c_verify"
  /\ \E env \in Envs :
       local' = CrossCheckFilesWithS3(local, remote, run.config.folderName, env).tree
  /\ Exit(run, 0)
  /\ UNCHANGED <<remote, sync, nruns>>

\* main() of finalize.ts up to the listing of the latest folder's artifacts
\* in applyRandomBeacon
FinStart ==
  /\ pc = "idle"
  /\ nruns < MaxRuns
  /\ nruns' = nruns + 1
  /\ \E env \in Envs, processEnv \in ProcessEnvs :
       LET r == [NewRun("finalize", local, remote) EXCEPT !.processEnv = processEnv]
           configured == CheckRequiredEnvVars(processEnv)
           t1 == [local EXCEPT !.dirs = @ \cup {FINAL_FOLDER_NAME}]
           seed == EnsureInitialSetup(t1, remote, env)
           r1cs == EnsureR1csFiles(seed.tree, remote, env)
           dl == DownloadLatestContribution(r1cs.tree, remote, env)
           existingFolders == GetContributionFolders(dl.tree)
           latestFolder == IF dl.name # NULL THEN dl.name ELSE LastOf(existingFolders)
           zkeyFiles == GetZkeyFiles(dl.tree, latestFolder)
           r2 == [r EXCEPT !.latest = dl.name, !.reachable = env.cli /\ env.ls]
       IN IF ~configured
          THEN local' = local /\ Exit(r, 1)
          ELSE IF ~seed.ok
          THEN local' = seed.tree /\ Exit(r, 1)
          ELSE IF ~r1cs.ok
          THEN local' = r1cs.tree /\ Exit(r, 1)
          ELSE IF dl.name = NULL /\ existingFolders = <<>>
          THEN local' = dl.tree /\ Exit(r2, 1)
          ELSE IF zkeyFiles = <<>>
          THEN local' = dl.tree /\ Exit([r2 EXCEPT !.lastFolder = latestFolder], 1)
          ELSE /\ local' = dl.tree
               /\ pc' = "f_beacon"
               /\ run' = [r2 EXCEPT !.lastFolder = latestFolder,
                                    !.zkeyFiles = zkeyFiles]
  /\ UNCHANGED <<remote, sync>>

\* One iteration of the loop of applyRandomBeacon
FinBeacon ==
  /\ pc = "f_beacon"
  /\ \E env \in Envs, outcome \in BeaconOutcomes :
       LET i == Len(run.contributions) + 1
           zkeyFile == run.zkeyFiles[i]
           b == ApplyRandomBeacon(local, remote, env, zkeyFile, outcome)
           r == [run EXCEPT !.failedAt = IF outcome = "ok" THEN @ ELSE i,
                            !.touched = @ \cup b.written,
                            !.r1csUsed = IF b.r1csFile = NULL THEN @
                                         ELSE Append(@, b.r1csFile),
                            !.stage = "beacon"]
       IN /\ local' = b.tree
          /\ IF ~b.ok
             THEN Exit(r, 1)
             ELSE /\ run' = [r EXCEPT !.contributions =
                                Append(@, [filename |-> zkeyFile,
                                           hash |-> <<"sha256", <<FINAL_FOLDER_NAME, zkeyFile>>>>])]
                  /\ pc' = IF i = Len(run.zkeyFiles) THEN "f_attest" ELSE "f_beacon"
  /\ UNCHANGED <<remote, sync, nruns>>

FinAttest ==
  /\ pc = "f_attest"
  /\ \E hashOk \in BOOLEAN :
       LET a == CreateAttestationFile(local, hashOk)
       IN IF ~a.ok
          THEN /\ local' = local
               /\ Exit([run EXCEPT !.stage = IF hashOk THEN @ ELSE "hash_failed"], 1)
          ELSE /\ local' = [local EXCEPT !.files = @ \cup a.written]
               /\ run' = [run EXCEPT !.attestationData.files = a.fileHashes,
                                     !.touched = @ \cup a.written,
                                     !.stage = IF hashOk THEN "attested"
                                               ELSE "hash_failed"]
               /\ pc' = "f_upload"
  /\ UNCHANGED <<remote, sync, nruns>>

FinUpload ==
  /\ pc = "f_upload"
  /\ \E env \in Envs :
       LET u == UploadToS3(local, remote, FINAL_FOLDER_NAME, env)
       IN /\ remote' = u.remote
          /\ IF u.ok
             THEN pc' = "f_verify" /\ run' = [run EXCEPT !.uploaded = TRUE]
             ELSE Exit(run, 0)
  /\ UNCHANGED <<local, sync, nruns>>

FinVerify ==
  /\ pc = "f_verify"
  /\ \E env \in Envs :
       LET c == CrossCheckFilesWithS3(local, remote, FINAL_FOLDER_NAME, env)
       IN /\ local' = c.tree
          /\ Exit([run EXCEPT !.synced = c.result], 0)
  /\ UNCHANGED <<remote, sync, nruns>>

Next ==
  \/ FinStart
  \/ FinBeacon
  \/ FinAttest
  \/ FinUpload
  \/ FinVerify
  \/ ContribStart
  \/ ContribAllocate
  \/ ContribTransform
  \/ ContribAttest
  \/ ContribUpload
  \/ ContribVerify

Spec == Init /\ [][Next]_vars

\* The contribution folders the archive holds under the ceremony prefix
RemoteFolders(rem) ==
  {k.folder : k \in {x \in rem : x.pre = <<S3_CONTRIBUTION_DIR>>
                                   /\ MatchesOrdinalPrefix(x.folder)}}

LatestOf(S) == CHOOSE f \in S : \A g \in S : g = f \/ LexLess(g, f)

\* C2: in a contribution run that reached the archive listing, the folder
\* used as the transform source is the last folder of the archive, also when
\* the local tree holds a folder that sorts later.
C2_SourceIsRemoteLatest ==
  (/\ run.op = "contribute"
   /\ run.reachable
   /\ run.zkeyFiles # <<>>
   /\ RemoteFolders(run.startRemote) # {})
    => run.lastFolder = LatestOf(RemoteFolders(run.startRemote))

\* C3: after any sequence of runs no two folders carry the same 4-digit
\* ordinal (stated here for the folders of the local tree alone).
C3_UniqueOrdinals ==
  pc = "idle" =>
    \A f, g \in ContributionDirs(local) :
      Substring0(f, 4) = Substring0(g, 4) => f = g

\* C9: when a transform or export invocation fails for an artifact of a
\* contribution run, the run exits non-zero, the new folder holds no
\* attestation.json, no later artifact is processed and the archive is as
\* the run found it.
C9_FailureAbortsRun ==
  (run.op = "contribute" /\ run.failedAt > 0) =>
    /\ pc = "idle"
    /\ run.done
    /\ run.exit = 1
    /\ <<run.config.folderName, AttestationJson>> \notin local.files
    /\ \A i \in (run.failedAt + 1)..Len(run.zkeyFiles) :
         <<run.config.folderName, run.zkeyFiles[i]>> \notin local.files
    /\ remote = run.startRemote

\* C9 witness: the export of the first of two artifacts failed
C9_Witness ==
  /\ run.op = "contribute"
  /\ run.failedAt = 1
  /\ Len(run.zkeyFiles) = 2
  /\ <<run.config.folderName, run.zkeyFiles[1]>> \in local.files
  /\ run.exit = 1

FilenamesOf(entries) == [i \in 1..Len(entries) |-> entries[i].filename]

\* C10: after a successful contribution run the new folder holds exactly the
\* .zkey files of the previous folder, and the attestation lists exactly one
\* entry per such file, in the previous folder's listing order.
C10_OneArtifactAndEntryPerZkey ==
  (run.op = "contribute" /\ run.done /\ run.exit = 0) =>
    LET previous == SelectEndsWith(ReadDir(local, run.lastFolder), ".zkey")
        new == SelectEndsWith(ReadDir(local, run.config.folderName), ".zkey")
    IN /\ new = previous
       /\ FilenamesOf(run.attestationData.files) = previous
       /\ <<run.config.folderName, AttestationJson>> \in local.files
       /\ \A i \in 1..Len(previous) :
            run.attestationData.files[i].hash
              = <<"sha256", <<run.config.folderName, previous[i]>>>>

\* C10 witness: a run that transformed two artifacts and exited zero
C10_Witness ==
  /\ run.op = "contribute"
  /\ run.done
  /\ run.exit = 0
  /\ Len(run.attestationData.files) = 2
  /\ run.attestationData.files[1].filename = AZkey

---------------------------------------------------------------------------
\* SpecFinal: one finalization run on drawn trees: a latest folder the local
\* tree lacks, holds in part or holds in full, what an earlier finalization
\* run left in the final folder, and the constraint-system files at hand

UpperA == <<"A", ".r1cs">>

UpperB == <<"B", ".r1cs">>

LowerA == <<"a", ".r1cs">>

LowerB == <<"b", ".r1cs">>

R1csLocalChoices ==
  {{UpperA, LowerA, LowerB}, {UpperA, UpperB}, {LowerB}, {LowerA, LowerB}}

\* What a finalization run that failed or succeeded leaves in the final folder
FinalLeftovers ==
  {{}, {AZkey}, {AZkey, BZkey},
   {AZkey, BZkey, FinalAttestationFile, BeaconMetadataFile}}

LatestCopies == {{}, {AZkey}, FullFiles}

FilesIn(folder, paths) == {<<folder, p>> : p \in paths}

InitFinal ==
  /\ \E folders \in ArchiveStarts, seeded \in BOOLEAN, copy \in LatestCopies,
        leftover \in FinalLeftovers, r1cs \in R1csLocalChoices :
       LET latest == LatestOf(folders)
           copied == latest # INITIAL_FOLDER /\ copy # {}
           dirs == (IF seeded THEN {INITIAL_FOLDER} ELSE {})
                     \cup (IF copied THEN {latest} ELSE {})
                     \cup (IF leftover # {} THEN {FINAL_FOLDER_NAME} ELSE {})
                     \cup {R1csFolder}
           files == (IF seeded THEN FilesIn(INITIAL_FOLDER, FullFiles) ELSE {})
                      \cup (IF copied THEN FilesIn(latest, copy) ELSE {})
                      \cup FilesIn(FINAL_FOLDER_NAME, leftover)
                      \cup FilesIn(R1csFolder, r1cs)
       IN /\ remote = ArchiveOf(folders) \cup SharedObjects
          /\ local = [dirs |-> dirs, other |-> {PtauFile}, files |-> files]
  /\ pc = "idle"
  /\ run = NoRun
  /\ sync = NoSync
  /\ nruns = MaxRuns - 1

NextFinal == FinStart \/ FinBeacon \/ FinAttest \/ FinUpload \/ FinVerify

SpecFinal == InitFinal /\ [][NextFinal]_vars

\* C11: once a folder's attestation has been written, no operation of a
\* later run creates, overwrites or removes a file in that folder of the
\* local tree (stated for the files the transform, beacon and attestation
\* steps write).
C11_SealedFoldersUntouched ==
  run.op \in {"contribute", "finalize"} =>
    \A w \in run.touched : w[1] \notin run.sealed

\* C12: once the final folder holds the final attestation, no contribution
\* run allocates a new folder behind it or takes it as its transform source.
C12_NoContributionAfterFinal ==
  (run.op = "contribute" /\ FINAL_FOLDER_NAME \in run.sealed) =>
    /\ run.config = NoConfig
    /\ run.lastFolder # FINAL_FOLDER_NAME

\* What the claims about finalization speak of

SeedAndFinal == {INITIAL_FOLDER, FINAL_FOLDER_NAME}

\* The contribution folders the run found in the local tree
StartContributionDirs == {f \in run.startDirs : MatchesOrdinalPrefix(f)}

BeaconInvoked == run.stage # "start"

WroteFinalAttestation ==
  <<FINAL_FOLDER_NAME, FinalAttestationFile>> \in run.touched

\* The archive's copy of a folder is in the local tree
Fetched(f) ==
  \A k \in run.startRemote :
    k = AsS3Key(f, k.path) => <<f, k.path>> \in local.files

\* C13: a finalization run with no contribution folder other than the seed,
\* in the archive or in the local tree, invokes no beacon, writes no
\* attestation and exits non-zero.
C13_FinalizeNeedsContribution ==
  (/\ run.op = "finalize"
   /\ RemoteFolders(run.startRemote) \subseteq SeedAndFinal
   /\ StartContributionDirs \subseteq SeedAndFinal)
    => /\ ~BeaconInvoked
       /\ ~WroteFinalAttestation
       /\ run.done => run.exit = 1

\* C14: in a finalization run whose archive holds a latest contribution
\* folder that the local tree, seed in place, lacks, the folder is in the local tree before any
\* beacon invocation; when it was not fetched and the local tree held no
\* contribution folder other than the seed, the run exits non-zero and
\* writes no final attestation.
C14_FetchBeforeBeacon ==
  LET behind == RemoteFolders(run.startRemote) \ SeedAndFinal
  IN (/\ run.op = "finalize"
      /\ behind # {}
      /\ INITIAL_FOLDER \in run.startDirs
      /\ LatestOf(behind) \notin run.startDirs)
       => /\ BeaconInvoked => Fetched(LatestOf(behind))
          /\ (/\ ~Fetched(LatestOf(behind))
              /\ StartContributionDirs \subseteq SeedAndFinal)
               => /\ ~WroteFinalAttestation
                  /\ run.done => run.exit = 1

\* C15: the ordinal of the final folder is the ordinal of the latest
\* contribution folder plus one.
C15_FinalOrdinalIsLastPlusOne ==
  (/\ run.op = "finalize"
   /\ BeaconInvoked
   /\ run.lastFolder \notin SeedAndFinal)
    => OrdinalValue(FINAL_FOLDER_NAME) = OrdinalValue(run.lastFolder) + 1

\* The constraint-system files the beacon step chooses from
R1csAtHand == Range(R1csFiles(local))

NameOf(zkeyFile) == Basename(zkeyFile, ".zkey")

IsExactMatch(file, zkeyFile) == Basename(file, ".r1cs") = NameOf(zkeyFile)

IsSubstringMatch(file, zkeyFile) ==
  \/ Includes(ToLowerCase(file), ToLowerCase(NameOf(zkeyFile)))
  \/ Includes(ToLowerCase(NameOf(zkeyFile)), ToLowerCase(Basename(file, ".r1cs")))

\* C16: the constraint-system file paired with a finalized artifact is the
\* one of the same base name when there is one, else one matching by
\* case-insensitive substring; with neither, the run fails at that artifact
\* and writes no final attestation.
C16_R1csSelection ==
  (run.op = "finalize" /\ run.zkeyFiles # <<>>) =>
    /\ Len(run.r1csUsed) <= Len(run.contributions) + 1
    /\ \A i \in 1..Len(run.r1csUsed) :
         /\ run.r1csUsed[i] \in R1csAtHand
         /\ IF \E f \in R1csAtHand : IsExactMatch(f, run.zkeyFiles[i])
            THEN IsExactMatch(run.r1csUsed[i], run.zkeyFiles[i])
            ELSE IsSubstringMatch(run.r1csUsed[i], run.zkeyFiles[i])
    /\ \A i \in 1..Len(run.zkeyFiles) :
         (\A f \in R1csAtHand : /\ ~IsExactMatch(f, run.zkeyFiles[i])
                                /\ ~IsSubstringMatch(f, run.zkeyFiles[i]))
           => /\ Len(run.contributions) < i
              /\ ~WroteFinalAttestation
              /\ run.done => run.exit = 1

\* C16 witness: a run that attested two artifacts paired by the fallback,
\* no file of the same base name being at hand
C16_Witness ==
  /\ run.op = "finalize"
  /\ run.stage = "attested"
  /\ LowerA \notin R1csAtHand
  /\ run.r1csUsed = <<UpperA, UpperB>>

\* C17: every artifact the final attestation lists was produced by a beacon
\* invocation and verified in the run that wrote the attestation.
C17_AttestedWereVerified ==
  (run.op = "finalize" /\ run.stage = "attested") =>
    \A i \in 1..Len(run.attestationData.files) :
      \E j \in 1..Len(run.contributions) :
        run.contributions[j].filename = run.attestationData.files[i].filename

FinalFilesWritten ==
  {<<FINAL_FOLDER_NAME, FinalAttestationFile>>,
   <<FINAL_FOLDER_NAME, BeaconMetadataFile>>}

\* C18: a finalization run in which the beacon, verify, export or hashing
\* stage failed exits non-zero, has written neither the final attestation nor
\* the beacon metadata and has uploaded nothing; a run that wrote them ends
\* with exit status zero whether or not the upload and the sync check worked.
C18_FatalStagesAndWarnings ==
  run.op = "finalize" =>
    /\ (run.failedAt > 0 \/ run.stage = "hash_failed")
         => /\ run.done /\ run.exit = 1
            /\ run.touched \cap FinalFilesWritten = {}
            /\ remote = run.startRemote
    /\ (run.stage = "attested" /\ run.done)
         => /\ run.exit = 0
            /\ FinalFilesWritten \subseteq local.files

\* C18 witness: the upload worked, the sync check after it did not, and the
\* run ended with status zero
C18_Witness ==
  /\ run.op = "finalize"
  /\ run.done
  /\ run.stage = "attested"
  /\ run.uploaded
  /\ ~run.synced
  /\ run.exit = 0

\* What the archive lists under the folder's prefix, ignored names included
ListedObjects == {x \in remote : x = AsS3Key(SyncFolder, x.path)}

\* The paths the first check asked the archive for
AskedPaths == {p \in SyncPaths : HealKey(SyncFolder, p) \in sync.first.asked}

\* C19: with an empty listing for the folder, or without the archive CLI,
\* crossCheckFilesWithS3 returns false, fetches nothing and leaves the local
\* tree as it was.
C19_ShortCircuit ==
  (/\ sync.phase = "checked"
   /\ \/ ~sync.env.cli
      \/ ~sync.env.ls
      \/ ListedObjects = {})
    => /\ ~sync.first.result
       /\ sync.first.asked = {}
       /\ local = sync.before

\* C19 witness: CLI and listing work, nothing is listed under the folder's
\* prefix, the local folder holds files and the bucket an object the heal
\* step would have found
C19_Witness ==
  /\ sync.phase = "checked"
  /\ Reachable
  /\ ListedObjects = {}
  /\ <<SyncFolder, AZkey>> \in sync.before.files
  /\ HealKey(SyncFolder, BZkey) \in remote
  /\ ~sync.first.result

\* The frame of the check: the archive as it was, no local file removed, no
\* path fetched that the local folder already held
SyncFrame ==
  sync.phase = "checked" =>
    /\ remote = sync.archive
    /\ sync.before.files \subseteq local.files
    /\ \A p \in AskedPaths : <<SyncFolder, p>> \notin sync.before.files

NothingMissing ==
  /\ Reachable
  /\ SyncFolder \in sync.before.dirs
  /\ ListedPaths \subseteq FilesOf(sync.before, SyncFolder)

\* C20 (as stated): crossCheckFilesWithS3 writes nothing to the archive,
\* overwrites and deletes no local file, and when no non-ignored archive path
\* is missing locally it fetches nothing and returns true.
C20_FrameAndNoOp ==
  /\ SyncFrame
  /\ (sync.phase = "checked" /\ NothingMissing)
       => /\ sync.first.asked = {}
          /\ sync.first.result

\* C20 (amended): the same, the last part for a listing that is not empty;
\* with an empty listing the check returns false.
C20_FrameAndNoOpWhenListed ==
  /\ SyncFrame
  /\ (sync.phase = "checked" /\ NothingMissing)
       => /\ sync.first.asked = {}
          /\ sync.first.result = (ListedObjects # {})

\* C20 witness: every listed path is in the local folder, which holds a file
\* the archive lacks; the check returned true and uploaded nothing
C20_Witness ==
  /\ sync.phase = "checked"
  /\ NothingMissing
  /\ ListedPaths = {AZkey}
  /\ <<SyncFolder, BZkey>> \in local.files
  /\ sync.first.missingS3Files # <<>>
  /\ sync.first.result
  /\ remote = sync.archive

---------------------------------------------------------------------------
\* SpecEntropy: performContributions() and createMetadataFiles() run twice on
\* the same source folder, configuration and clock, with two drawn seeds

\* crypto.randomBytes(128).toString("hex"), two characters of it
MainEntropies == {<<"f", "3">>, <<"e", "7">>, <<"d", "9">>}

\* What the contributor types when asked, "" when they decline
AdditionalEntropies == {<<>>, <<"q", "w">>}

\* The characters read from /dev/urandom, "" when both commands fail
SystemEntropies == {<<>>, <<"F", "0">>}

Timestamps == {<<"2025", "-03-14T00:00:00.000Z">>, <<"2025", "-03-15T00:00:00.000Z">>}

\* crypto.createHash("sha512").update(s, "utf8").digest("hex"), taken as
\* injective
Sha512Hex(s) == <<"sha512(">> \o s \o <<")">>

\* crypto.createHash("sha256").update(contents).digest("hex")
Sha256Hex(contents) == [alg |-> "sha256", of |-> contents]

\* mainEntropy + additionalEntropy + systemEntropy
BaseEntropy(mainEntropy, additionalEntropy, systemEntropy) ==
  mainEntropy \o additionalEntropy \o systemEntropy

FileSpecificEntropySeedOnly(baseEntropy, zkeyFile) == baseEntropy

\* baseEntropy + zkeyFile
FileSpecificEntropy(baseEntropy, zkeyFile) == baseEntropy \o zkeyFile

\* `Contribution #${config.contributionNumber} from ${config.githubUsername}`
ContributionName(config) ==
  <<"Contribution #">> \o config.contributionNumber
    \o <<" from ", config.githubUsername>>

\* The text of <zkeyFile>_transcript.txt
TranscriptText(zkeyFile, config) ==
  <<"Contribution to ">> \o zkeyFile \o <<" by ", config.githubUsername>>
    \o <<"Timestamp: ">> \o config.timestamp

\* The text of contribution.txt
ContributionText(config) ==
  <<"Contribution by ", config.githubUsername, "Timestamp: ">>
    \o config.timestamp
    \o <<"Entropy was generated using a secure method and has been deleted.">>

ContributeToZkeyTextsLeaking(zkeyFile, lastFolder, config, baseEntropy) ==
  LET uniqueEntropy == Sha512Hex(baseEntropy)
      contents == [from |-> <<lastFolder, zkeyFile>>, stdin |-> uniqueEntropy,
                   name |-> ContributionName(config)]
  IN [filename |-> zkeyFile,
      uniqueEntropy |-> uniqueEntropy,
      newZkey |-> contents,
      transcript |-> TranscriptText(zkeyFile, config) \o uniqueEntropy,
      hash |-> Sha256Hex(contents)]

\* contributeToZkey(zkeyFile, lastFolder, config, baseEntropy) when every
\* command succeeds: the secret piped to snarkjs, the artifact snarkjs makes
\* of the source artifact, the secret and the name, the transcript and the
\* hash returned
ContributeToZkeyTexts(zkeyFile, lastFolder, config, baseEntropy) ==
  LET uniqueEntropy == Sha512Hex(baseEntropy)
      contents == [from |-> <<lastFolder, zkeyFile>>, stdin |-> uniqueEntropy,
                   name |-> ContributionName(config)]
  IN [filename |-> zkeyFile,
      uniqueEntropy |-> uniqueEntropy,
      newZkey |-> contents,
      transcript |-> TranscriptText(zkeyFile, config),
      hash |-> Sha256Hex(contents)]

\* zkeyFiles.map(...) of performContributions
PerformContributions(config, lastFolder, zkeyFiles, baseEntropy) ==
  [i \in 1..Len(zkeyFiles) |->
     ContributeToZkeyTexts(zkeyFiles[i], lastFolder, config,
                           FileSpecificEntropy(baseEntropy, zkeyFiles[i]))]

\* The object createMetadataFiles serialises into attestation.json
AttestationDataOf(config, contributions) ==
  [contributor |-> config.githubUsername,
   contributionNumber |-> config.contributionNumber,
   timestamp |-> config.timestamp,
   files |-> [i \in 1..Len(contributions) |->
                [filename |-> contributions[i].filename,
                 hash |-> contributions[i].hash]]]

EntropySources == {INITIAL_FOLDER, Folder(1, "alice")}

InitEntropy ==
  /\ \E lastFolder \in EntropySources, fill \in FillChoices \ {{}},
        user \in Users, timestamp \in Timestamps,
        m1 \in MainEntropies, a1 \in AdditionalEntropies, s1 \in SystemEntropies,
        m2 \in MainEntropies, a2 \in AdditionalEntropies, s2 \in SystemEntropies :
       LET number == NextNumber(<<lastFolder>>)
       IN /\ local = TreeOf({lastFolder}, {}, fill)
          /\ run = [op |-> "entropy",
                    lastFolder |-> lastFolder,
                    zkeyFiles |-> GetZkeyFiles(local, lastFolder),
                    config |-> [contributionNumber |-> number,
                                githubUsername |-> user,
                                folderName |-> number \o <<"_", user>>,
                                timestamp |-> timestamp],
                    seeds |-> <<BaseEntropy(m1, a1, s1), BaseEntropy(m2, a2, s2)>>,
                    pieces |-> <<>>, notes |-> <<>>, attestations |-> <<>>]
  /\ remote = {}
  /\ pc = "seeded"
  /\ sync = NoSync
  /\ nruns = 0

\* performContributions(config, lastFolder), once per seed
EntContribute ==
  /\ pc = "seeded"
  /\ run' = [run EXCEPT !.pieces =
               [k \in 1..2 |-> PerformContributions(run.config, run.lastFolder,
                                                    run.zkeyFiles, run.seeds[k])]]
  /\ local' = [local EXCEPT
                 !.dirs = @ \cup {run.config.folderName},
                 !.files = @ \cup {<<run.config.folderName, f>> :
                                     f \in Range(run.zkeyFiles)}
                             \cup {<<run.config.folderName, f \o <<"_transcript.txt">>>> :
                                     f \in Range(run.zkeyFiles)}]
  /\ pc' = "contributed"
  /\ UNCHANGED <<remote, sync, nruns>>

\* createMetadataFiles(config, contributions), once per seed
EntAttest ==
  /\ pc = "contributed"
  /\ run' = [run EXCEPT
               !.notes = [k \in 1..2 |-> ContributionText(run.config)],
               !.attestations =
                 [k \in 1..2 |-> AttestationDataOf(run.config, run.pieces[k])]]
  /\ local' = [local EXCEPT !.files =
                 @ \cup CreateMetadataFiles(run.config, <<>>).written]
  /\ pc' = "attested"
  /\ UNCHANGED <<remote, sync, nruns>>

NextEntropy == EntContribute \/ EntAttest

SpecEntropy == InitEntropy /\ [][NextEntropy]_vars

\* The strings the two metadata files and the transcripts carry
WrittenTexts(k) ==
  {run.pieces[k][i].transcript : i \in 1..Len(run.pieces[k])}
    \cup {run.notes[k]}
    \cup {<<run.attestations[k].contributor>>,
          run.attestations[k].contributionNumber,
          run.attestations[k].timestamp}
    \cup {run.attestations[k].files[i].filename :
            i \in 1..Len(run.attestations[k].files)}

\* The base seed of run k, what is hashed per artifact and the secrets piped
\* to the transform
Secrets(k) ==
  {run.seeds[k]}
    \cup {FileSpecificEntropy(run.seeds[k], f) : f \in Range(run.zkeyFiles)}
    \cup {run.pieces[k][i].uniqueEntropy : i \in 1..Len(run.pieces[k])}

WithoutHashes(attestation) ==
  [attestation EXCEPT !.files = FilenamesOf(attestation.files)]

\* C21: the transcripts, contribution.txt and attestation.json of two runs
\* that differ only in the seed are the same apart from the artifact hashes,
\* and no seed, hashed input or derived secret appears in any of them.
C21_WrittenFilesIgnoreEntropy ==
  (run.op = "entropy" /\ pc = "attested") =>
    /\ \A i \in 1..Len(run.zkeyFiles) :
         run.pieces[1][i].transcript = run.pieces[2][i].transcript
    /\ run.notes[1] = run.notes[2]
    /\ WithoutHashes(run.attestations[1]) = WithoutHashes(run.attestations[2])
    /\ \A k \in 1..2 : \A text \in WrittenTexts(k) : \A s \in Secrets(k) :
         ~Includes(text, s)

\* C21 witness: two runs over two artifacts with different seeds, whose
\* attestations differ in the hashes
C21_Witness ==
  /\ run.op = "entropy"
  /\ pc = "attested"
  /\ Len(run.zkeyFiles) = 2
  /\ run.seeds[1] # run.seeds[2]
  /\ run.attestations[1].files[1].hash # run.attestations[2].files[1].hash

\* C22: the secret derived for an artifact is determined by the base seed and
\* the artifact's filename, and within one contribution distinct filenames
\* are hashed from distinct inputs and get distinct secrets.
C22_DerivationPerSeedAndName ==
  (run.op = "entropy" /\ pc # "seeded") =>
    /\ \A k, l \in 1..2 : \A i \in 1..Len(run.zkeyFiles) :
         run.seeds[k] = run.seeds[l]
           => run.pieces[k][i].uniqueEntropy = run.pieces[l][i].uniqueEntropy
    /\ \A k \in 1..2 : \A i, j \in 1..Len(run.zkeyFiles) :
         run.zkeyFiles[i] # run.zkeyFiles[j]
           => /\ run.pieces[k][i].newZkey.stdin # run.pieces[k][j].newZkey.stdin
              /\ run.pieces[k][i].uniqueEntropy # run.pieces[k][j].uniqueEntropy

\* C22 witness: the same seed drawn twice, two artifacts, two secrets
C22_Witness ==
  /\ run.op = "entropy"
  /\ pc = "contributed"
  /\ run.seeds[1] = run.seeds[2]
  /\ Len(run.zkeyFiles) = 2
  /\ run.pieces[1][1].uniqueEntropy = run.pieces[2][1].uniqueEntropy
  /\ run.pieces[1][1].uniqueEntropy # run.pieces[1][2].uniqueEntropy

---------------------------------------------------------------------------
\* Entry points and degraded environments

\* C23: a run started with a required configuration variable missing ends
\* with a non-zero status at once: the local tree and the archive are as they
\* were, no folder is allocated and no file is written.
C23_MissingConfigIsFatalFirst ==
  [][(/\ pc = "idle"
      /\ run'.op \in {"contribute", "finalize"}
      /\ RequiredVars \ run'.processEnv # {})
       => /\ local' = local
          /\ remote' = remote
          /\ pc' = "idle"
          /\ run'.done
          /\ run'.exit = 1
          /\ run'.config = NoConfig
          /\ run'.touched = {}]_vars

\* C23 witness: a finalization run without the endpoint variable, ended with
\* status 1 before the final folder was created
C23_Witness ==
  /\ run.op = "finalize"
  /\ "AWS_ENDPOINT_URL" \notin run.processEnv
  /\ run.done
  /\ run.exit = 1
  /\ FINAL_FOLDER_NAME \notin local.dirs
  /\ remote = run.startRemote

\* Every folder the archive holds is in the local tree with all its files
LocalCopyComplete ==
  /\ INITIAL_FOLDER \in local.dirs
  /\ \A f \in RemoteFolders(remote) :
       /\ f \in local.dirs
       /\ \A k \in remote : k = AsS3Key(f, k.path) => <<f, k.path>> \in local.files

\* C24: a contribution run started without the archive CLI on a local tree
\* that holds the seed and the latest contribution in full goes on to allocate
\* its folder and transform; it does not end at the start.
C24_LocalOnlyContribution ==
  [][(/\ pc = "idle"
      /\ run'.op = "contribute"
      /\ run'.processEnv = RequiredVars
      /\ ~run'.awsCli
      /\ LocalCopyComplete)
       => pc' = "c_alloc"]_vars

\* The archive holds a seed artifact that a recursive copy can fetch
SeedFetchable ==
  /\ run.env.cli /\ run.env.xfer
  /\ INITIAL_FOLDER \notin run.before.other
  /\ \E k \in remote : k = DownloadKey(INITIAL_FOLDER, k.path) /\ EndsWith(k.path, ".zkey")

\* C25: ensureInitialSetup returns normally exactly when the seed folder held
\* an artifact already or the copy from the archive brought one; when it
\* returns the seed folder holds an artifact, otherwise it throws; every file
\* of the local tree was there before or is an object of the archive.
C25_SeedPresentOrFatal ==
  run.op = "seed" =>
    /\ run.ok => HasRequiredZkeyFiles(local, INITIAL_FOLDER)
    /\ run.ok = (HasRequiredZkeyFiles(run.before, INITIAL_FOLDER) \/ SeedFetchable)
    /\ \A f \in local.files :
         \/ f \in run.before.files
         \/ \E k \in remote : k.folder = f[1] /\ k.path = f[2]

\* C25 witness: the seed folder was missing and the copy from the archive
\* brought its artifacts
C25_Witness ==
  /\ run.op = "seed"
  /\ run.ok
  /\ INITIAL_FOLDER \notin run.before.dirs
  /\ <<INITIAL_FOLDER, AZkey>> \in local.files

\* The place of a step in a contribution run
StepRank(p) ==
  CASE p = "c_alloc" -> 1
    [] p = "c_transform" -> 2
    [] p = "c_attest" -> 3
    [] p = "c_upload" -> 4
    [] p = "c_verify" -> 5
    [] OTHER -> 0

AttestationWritten ==
  <<run.config.folderName, AttestationJson>> \in run.touched

\* C26: a contribution run creates its folder, transforms the artifacts one
\* at a time in listing order, writes the attestation, uploads the folder and
\* checks it, in this order: no attestation before the last transform, no
\* upload before the attestation, no step taken twice or out of turn.
C26_StepOrder ==
  /\ [](run.op = "contribute" =>
          /\ StepRank(pc) >= 2 => run.config.folderName \in local.dirs
          /\ run.touched # {} => run.config.folderName \in local.dirs
          /\ FilenamesOf(run.contributions)
               = SubSeq(run.zkeyFiles, 1, Len(run.contributions))
          /\ AttestationWritten
               => /\ run.zkeyFiles # <<>>
                  /\ Len(run.contributions) = Len(run.zkeyFiles)
          /\ (run.uploaded \/ remote # run.startRemote) => AttestationWritten
          /\ StepRank(pc) >= 4 => AttestationWritten)
  /\ [][(StepRank(pc) > 0 /\ StepRank(pc') > 0)
          => \/ StepRank(pc') = StepRank(pc) + 1
             \/ /\ pc = "c_transform"
                /\ pc' = "c_transform"
                /\ Len(run'.contributions) = Len(run.contributions) + 1]_vars

\* C26 witness: a run that went through every step with two artifacts and
\* whose folder reached the archive
C26_Witness ==
  /\ run.op = "contribute"
  /\ run.done
  /\ run.exit = 0
  /\ Len(run.contributions) = 2
  /\ AttestationWritten
  /\ run.uploaded
  /\ AsS3Key(run.config.folderName, AttestationJson) \in remote

\* The non-ignored listed paths the local folder lacked before the check
MissingBefore == ListedPaths \ FilesOf(sync.before, SyncFolder)

HasArtifact(paths) ==
  \E p \in paths : EndsWith(p, ".zkey") \/ EndsWith(p, ".r1cs")

\* C27: a check that came to compare the two listings asks the archive for
\* files exactly when some listed path is missing locally and one of the
\* missing paths ends in .zkey or .r1cs; it then asks for every missing path,
\* artifact or not; with only other files missing it asks for nothing,
\* leaves the tree alone and returns false.
C27_HealTrigger ==
  sync.phase = "checked" =>
    /\ sync.first.compared
         => Range(sync.first.missingLocalFiles) = MissingBefore
    /\ ~sync.first.compared => sync.first.asked = {}
    /\ sync.first.compared =>
         /\ (sync.first.asked # {}) = HasArtifact(MissingBefore)
         /\ sync.first.asked # {}
              => sync.first.asked = {HealKey(SyncFolder, p) : p \in MissingBefore}
         /\ (MissingBefore # {} /\ ~HasArtifact(MissingBefore))
              => /\ sync.first.asked = {}
                 /\ local = sync.before
                 /\ ~sync.first.result

\* C27 witness: an artifact and a note are missing, the check asked for both
C27_Witness ==
  /\ sync.phase = "checked"
  /\ sync.first.compared
  /\ MissingBefore = {SubC, Notes}
  /\ HealKey(SyncFolder, Notes) \in sync.first.asked
  /\ HealKey(SyncFolder, SubC) \in sync.first.asked

\* The listed, non-ignored paths that a tree's copy of the folder lacks
AbsentFrom(tree) == ListedPaths \ FilesOf(tree, SyncFolder)

\* C28: when crossCheckFilesWithS3 returns true, the local folder holds every
\* non-ignored path listed under the folder's prefix; when such a path is
\* still absent after the heal attempt, it returns false.
C28_TrueMeansComplete ==
  /\ sync.phase \in {"checked", "rechecked"} =>
       /\ sync.first.result => AbsentFrom(sync.first.tree) = {}
       /\ AbsentFrom(sync.first.tree) # {} => ~sync.first.result
  /\ sync.phase = "rechecked" =>
       /\ sync.second.result => AbsentFrom(local) = {}
       /\ AbsentFrom(local) # {} => ~sync.second.result

\* C28 witness: an artifact was missing, the heal attempt brought it and the
\* check returned true
C28_Witness ==
  /\ sync.phase = "checked"
  /\ sync.first.shouldDownload
  /\ AbsentFrom(sync.before) # {}
  /\ AbsentFrom(local) = {}
  /\ sync.first.result

\* The folders the drawn trees and archives start with, complete contributions
GivenFolders == UNION ArchiveStarts

\* C29: the transform source of a contribution run is the seed folder or a
\* folder that held a written attestation when the run began (stated for
\* the folders that earlier contribution runs created, no finalization run
\* having taken place; the folders a tree starts with are taken as complete).
C29_SourceIsAttested ==
  (/\ run.op = "contribute"
   /\ run.zkeyFiles # <<>>
   /\ FINAL_FOLDER_NAME \notin run.startDirs
   /\ run.lastFolder \notin GivenFolders)
    => run.lastFolder \in run.sealed

\* C30: the folder a finalization run reads the artifacts from when it
\* invokes the beacon is not the final folder it writes them to.
C30_BeaconInputIsNotOutput ==
  (run.op = "finalize" /\ BeaconInvoked) => run.lastFolder # FINAL_FOLDER_NAME

\* C31: when the recursive copy of downloadLatestContribution fails, the
\* contribution folders of the local tree are those it held before: no
\* folder is left behind for getContributionFolders to list.
C31_FailedDownloadLeavesNoFolder ==
  (/\ run.op = "latest"
   /\ run.name # NULL
   /\ ~run.env.xfer)
    => GetContributionFolders(local) = GetContributionFolders(run.before)

\* C32: when ensurePtauFile returns normally the parameters file is in the
\* local tree; with the file absent and the CLI unavailable or the copy
\* failing it throws.
C32_PtauPresentOrThrows ==
  run.op = "ptau" =>
    /\ run.ok => PtauFile \in local.other
    /\ (PtauFile \notin run.before.other /\ PtauFile \notin local.other) => ~run.ok

====
